---- MODULE Spec2Model ----
(***************************************************************************)
(* Model of Aceeri/optimal-layout: the Morton codec (src/src/morton.rs),   *)
(* the Layout bijection with its cost metric and swap primitive, the       *)
(* randomized local search and the snapshot load/save systems              *)
(* (src/src/main.rs).                                                      *)
(*                                                                         *)
(* Three specifications share the variables:                               *)
(*   SpecMorton  the codec applied to bounded inputs;                      *)
(*   SpecLayout  a Layout built by one seed policy, then driven through    *)
(*               its public operations (swap, position) and through        *)
(*               iterations of the search loop body;                       *)
(*   Spec        the application of main(): frames in which the three      *)
(*               Update systems run in any order.                          *)
(***************************************************************************)
EXTENDS Integers, Sequences, FiniteSets, TLC

VARIABLES
    layout,             \* Layout.0 : HashMap<U8Vec3, usize>
    best_heuristic,     \* RandomSearch.best_heuristic
    initial_heuristic,  \* RandomSearch.initial_heuristic
    iteration,          \* RandomSearch.iteration
    running,            \* RandomSearch.running
    load,               \* RandomSearch.load
    panicked,           \* the process died in a panic (assert!, unwrap)
    keys,               \* ButtonInput<KeyCode> of the current frame
    pending,            \* Update systems that have not yet run this frame
    left,               \* random_search: loop iterations still to run, -1 outside it
    file,               \* ./layouts/layout-<run_name>-<WIDTH>^3.yml
    log,                \* what the system that ran last wrote with info! and warn!
    hist,               \* history: mutated = the systems that have written the Layout
                        \* in this frame; saved = the kind of the snapshot written
                        \* since the iteration counter last changed, "no" if none
    op,                 \* SpecLayout: the last Layout call, its arguments and result
    codec               \* SpecMorton: the codec's inputs and results

vars == <<layout, best_heuristic, initial_heuristic, iteration, running, load,
          panicked, keys, pending, left, file, log, hist, op, codec>>

appVars == <<best_heuristic, initial_heuristic, iteration, running, load,
             keys, pending, left, file, log, hist>>

(***************************************************************************)
(* Fixed-width integer arithmetic.                                         *)
(***************************************************************************)
RECURSIVE Pow2(_)
Pow2(n) == IF n = 0 THEN 1 ELSE 2 * Pow2(n - 1)

\* usize values are written as their two's-complement reading (the value of
\* `v as isize`): an index below 2^63 is itself and usize::MAX is -1.
USIZE_MAX == -1

\* `v as isize` of a usize written that way
as_isize(v) == v

\* i32 `as u8`: the low eight bits
as_u8(v) == v % 256

Abs(v) == IF v < 0 THEN -v ELSE v

RECURSIVE BitAnd(_, _)
BitAnd(a, b) ==
    IF a = 0 \/ b = 0 THEN 0
    ELSE (a % 2) * (b % 2) + 2 * BitAnd(a \div 2, b \div 2)

RECURSIVE BitOr(_, _)
BitOr(a, b) ==
    IF a = 0 THEN b
    ELSE IF b = 0 THEN a
    ELSE (IF a % 2 = 1 \/ b % 2 = 1 THEN 1 ELSE 0) + 2 * BitOr(a \div 2, b \div 2)

\* u32 << n and u32 >> n. Every value the codec shifts is below 2^24 and the
\* shifts are by at most 8, so no bit is shifted out of the 32-bit word.
Shl(v, n) == v * Pow2(n)
Shr(v, n) == v \div Pow2(n)

\* the hexadecimal masks of morton.rs
Hex00F00F == 15 + 15 * Pow2(12)
Hex0C30C3 == 3 + 3 * Pow2(6) + 3 * Pow2(12) + 3 * Pow2(18)
Hex249249 == 1 + Pow2(3) + Pow2(6) + Pow2(9) + Pow2(12) + Pow2(15) + Pow2(18) + Pow2(21)

(***************************************************************************)
(* Morton codec, src/src/morton.rs                                         *)
(***************************************************************************)
\* faulty variant: the second step shifts by 2 instead of 4
spread_bits_badshift(value) ==
    LET v0 == BitAnd(value, 15)
        v1 == BitAnd(BitOr(v0, Shl(v0, 8)), Hex00F00F)
        v2 == BitAnd(BitOr(v1, Shl(v1, 2)), Hex0C30C3)
        v3 == BitAnd(BitOr(v2, Shl(v2, 2)), Hex249249)
    IN  v3

spread_bits(value) ==
    LET v0 == BitAnd(value, 15)
        v1 == BitAnd(BitOr(v0, Shl(v0, 8)), Hex00F00F)
        v2 == BitAnd(BitOr(v1, Shl(v1, 4)), Hex0C30C3)
        v3 == BitAnd(BitOr(v2, Shl(v2, 2)), Hex249249)
    IN  v3

\* faulty variant: the middle step of compact_bits shifts by 2 instead of 4
compact_bits_badshift(value) ==
    LET v0 == BitAnd(value, Hex249249)
        v1 == BitAnd(BitOr(v0, Shr(v0, 2)), Hex0C30C3)
        v2 == BitAnd(BitOr(v1, Shr(v1, 2)), Hex00F00F)
        v3 == BitAnd(BitOr(v2, Shr(v2, 8)), 15)
    IN  v3

compact_bits(value) ==
    LET v0 == BitAnd(value, Hex249249)
        v1 == BitAnd(BitOr(v0, Shr(v0, 2)), Hex0C30C3)
        v2 == BitAnd(BitOr(v1, Shr(v1, 4)), Hex00F00F)
        v3 == BitAnd(BitOr(v2, Shr(v2, 8)), 15)
    IN  v3

\* a point is a triple <<x, y, z>>
to_morton_index(point) ==
    BitOr(BitOr(spread_bits(point[1]), Shl(spread_bits(point[2]), 1)),
          Shl(spread_bits(point[3]), 2))

Ok(v) == [tag |-> "Ok", val |-> v]
Err == [tag |-> "Err", val |-> "Coordinates must be in range [0, 16)"]

Morton3D_encode(point) ==
    IF point[1] >= 16 \/ point[2] >= 16 \/ point[3] >= 16
    THEN Err
    ELSE Ok(BitOr(BitOr(spread_bits(point[1]), Shl(spread_bits(point[2]), 1)),
                  Shl(spread_bits(point[3]), 2)))

Morton3D_decode(index) ==
    <<compact_bits(index), compact_bits(Shr(index, 1)), compact_bits(Shr(index, 2))>>

(***************************************************************************)
(* Layout, src/src/main.rs                                                 *)
(*                                                                         *)
(* The cube is scaled down: WIDTH is 2^WidthBits, 16 = 2^4 in the source.  *)
(* A power of two keeps to_morton_index a bijection onto [0, WIDTH^3), as  *)
(* it is for 16, and the constants of the code (the threshold 32, the u8   *)
(* keys) keep their values.                                                *)
(***************************************************************************)
WidthBits == 2
WIDTH == Pow2(WidthBits)

Axis == 0 .. (WIDTH - 1)

\* the key set every constructor inserts: (x, y, z) for y, x, z in 0..WIDTH
Grid == Axis \X Axis \X Axis

as_u8vec3(point) == <<as_u8(point[1]), as_u8(point[2]), as_u8(point[3])>>

\* U8Vec3 -> IVec3 keeps every component
as_ivec3(point) == point

\* faulty variant: the y term scaled by WIDTH once instead of twice
linearize_flat(point) == point[1] + point[3] * WIDTH + point[2] * WIDTH

linearize(point) == point[1] + point[3] * WIDTH + point[2] * WIDTH * WIDTH

new_linear == [k \in {as_u8vec3(p) : p \in Grid} |-> linearize(k)]

new_morton == [k \in {as_u8vec3(p) : p \in Grid} |-> to_morton_index(k)]

\* point_list of new_random: pushed for y, then x, then z (0-based position)
point_list == [i \in 0 .. (WIDTH * WIDTH * WIDTH - 1) |->
                 <<(i \div WIDTH) % WIDTH, i \div (WIDTH * WIDTH), i % WIDTH>>]

\* SliceRandom::shuffle: for i from len-1 down to 1, swap(i, j_i) with j_i drawn
\* from 0..=i. draws[n] is the n-th draw; once draws is used up, j_i = i.
RECURSIVE shuffle(_, _, _)
shuffle(list, i, draws) ==
    IF i < 1 \/ draws = <<>> THEN list
    ELSE LET j == Head(draws)
         IN  shuffle([list EXCEPT ![i] = list[j], ![j] = list[i]], i - 1, Tail(draws))

new_random(draws) ==
    LET shuffled == shuffle(point_list, WIDTH * WIDTH * WIDTH - 1, draws)
    IN  [k \in {as_u8vec3(shuffled[i]) : i \in DOMAIN shuffled} |->
           CHOOSE i \in DOMAIN shuffled : as_u8vec3(shuffled[i]) = k]

position(l, point) ==
    IF as_u8vec3(point) \in DOMAIN l THEN l[as_u8vec3(point)] ELSE USIZE_MAX

in_bounds(point) ==
    /\ point[1] >= 0
    /\ point[1] < WIDTH
    /\ point[2] >= 0
    /\ point[2] < WIDTH
    /\ point[3] >= 0
    /\ point[3] < WIDTH

Offsets == (-1 .. 1) \X (-1 .. 1) \X (-1 .. 1)

\* faulty variant: the in_bounds filter is left out
neighbors_unfiltered(point) ==
    {<<point[1] + d[1], point[2] + d[2], point[3] + d[3]>> : d \in Offsets}

neighbors(point) ==
    {n \in {<<point[1] + d[1], point[2] + d[2], point[3] + d[3]>> : d \in Offsets} :
        in_bounds(n)}

\* cache-line threshold of heuristic(): 64 bytes of 2-byte voxels
Threshold == 32

\* one (point, neighbor) pair of the two loops of heuristic() adds 1 or 0
miss(l, point, neighbor) ==
    Abs(as_isize(position(l, neighbor)) - as_isize(l[point])) >= Threshold

\* total counts the (point, neighbor) pairs of the two loops that miss
heuristic(l) ==
    Cardinality(UNION {{<<point, neighbor>> :
                          neighbor \in {n \in neighbors(as_ivec3(point)) : miss(l, point, n)}} :
                       point \in DOMAIN l})

\* swap() panics: the assert! on the bounds, get_many_mut on overlapping keys,
\* or unwrap() on a key the map does not hold
swap_panics(l, a, b) ==
    \/ ~(in_bounds(a) /\ in_bounds(b))
    \/ as_u8vec3(a) = as_u8vec3(b)
    \/ as_u8vec3(a) \notin DOMAIN l
    \/ as_u8vec3(b) \notin DOMAIN l

\* faulty variant: a's slot is overwritten and b's is left as it was
swap_overwrite(l, a, b) ==
    IF swap_panics(l, a, b) THEN l
    ELSE [l EXCEPT ![as_u8vec3(a)] = l[as_u8vec3(b)]]

\* the map after swap(a, b); a call that panics has not touched it
swap(l, a, b) ==
    IF swap_panics(l, a, b) THEN l
    ELSE [l EXCEPT ![as_u8vec3(a)] = l[as_u8vec3(b)], ![as_u8vec3(b)] = l[as_u8vec3(a)]]

(***************************************************************************)
(* random_search, src/src/main.rs: one iteration of the loop               *)
(***************************************************************************)
MAX_SWAPS == WIDTH * WIDTH * 3

\* `for (swap_a, swap_b) in swaps.iter() { layout.swap(..) }`, which stops at
\* the first call that panics. st is [map, panic].
RECURSIVE apply_swaps(_, _)
apply_swaps(st, swaps) ==
    IF swaps = <<>> \/ st.panic THEN st
    ELSE LET a == Head(swaps)[1]
             b == Head(swaps)[2]
         IN  apply_swaps([map |-> swap(st.map, a, b),
                          panic |-> swap_panics(st.map, a, b)], Tail(swaps))

\* swaps.iter().rev()
rev(swaps) == [i \in 1 .. Len(swaps) |-> swaps[Len(swaps) + 1 - i]]

\* faulty variant: the rejected batch stays applied
revert_none(st, swaps) == st

\* faulty variant: the rejected batch is re-applied front to back
revert_forward(st, swaps) == apply_swaps(st, swaps)

revert(st, swaps) == apply_swaps(st, rev(swaps))

\* faulty variant: a batch of equal cost is rejected
accepts_strict(new_heuristic, best) == new_heuristic < best

\* faulty variant: the comparison of the accept branch turned around
accepts_worse(new_heuristic, best) == new_heuristic >= best

accepts(new_heuristic, best) == new_heuristic <= best

\* the body of `for _ in 0..search.per_frame` with the batch the rng drew
LoopBody(swaps) ==
    LET applied == apply_swaps([map |-> layout, panic |-> FALSE], swaps)
        new_heuristic == heuristic(applied.map)
        reverted == revert(applied, swaps)
    IN  IF applied.panic
        THEN /\ layout' = applied.map
             /\ panicked' = TRUE
             /\ UNCHANGED <<best_heuristic, iteration>>
        ELSE IF accepts(new_heuristic, best_heuristic)
        THEN /\ layout' = applied.map
             /\ best_heuristic' = new_heuristic
             /\ iteration' = iteration + 1
             /\ UNCHANGED panicked
        ELSE /\ layout' = reverted.map
             /\ panicked' = reverted.panic
             /\ iteration' = IF reverted.panic THEN iteration ELSE iteration + 1
             /\ UNCHANGED best_heuristic

(***************************************************************************)
(* Inputs of the model                                                     *)
(***************************************************************************)
\* the (first draw, second draw) outcomes of the modelled rng for one candidate
Draws == {<<<<WIDTH - 1, WIDTH - 1, WIDTH - 1>>, <<0, 0, 0>>>>,
          <<<<0, 0, 0>>, <<1, 1, 1>>>>,
          <<<<1, 1, 1>>, <<1, 1, 1>>>>}

\* swap_a is the first draw; swap_b is redrawn until it differs from swap_a
GenPairs == {ab \in Draws : ab[2] # ab[1]}

\* the longest batch the modelled rng draws (the code: below MAX_SWAPS)
MaxBatch == 2

Seqs(S, n) == UNION {[1 .. k -> S] : k \in 1 .. n}

Batches == {b \in Seqs(GenPairs, MaxBatch) : Len(b) < MAX_SWAPS}

\* the iteration counter is followed up to MaxIter
MaxIter == 2

\* the first draw of the shuffle of new_random is any of 0..MaxDraw; the later
\* draws leave their element in place
MaxDraw == 1

Seeds == {new_linear, new_morton} \cup {new_random(<<j>>) : j \in 0 .. MaxDraw}

\* arguments of the modelled swap calls and position lookups
OutOfBounds == {<<WIDTH, 0, 0>>, <<-1, 0, 0>>, <<256, 0, 0>>}
SwapPoints == {<<0, 0, 0>>, <<1, 1, 1>>, <<WIDTH, 0, 0>>}
ProbePoints == {<<1, 1, 1>>} \cup OutOfBounds

NoFile == [kind |-> "missing", entries |-> {}]
NoHist == [mutated |-> {}, saved |-> "no"]
NoOp == [name |-> "none", args |-> <<>>, ret |-> 0, before |-> <<>>]
Unset == [tag |-> "None", val |-> 0]
NoCodec == [kind |-> "none", input |-> 0, enc |-> Unset, to |-> Unset, dec |-> Unset]

(***************************************************************************)
(* SpecLayout: a seeded Layout under swap, position and the loop body      *)
(***************************************************************************)
InitLayout ==
    /\ layout \in Seeds
    /\ best_heuristic = heuristic(layout)
    /\ initial_heuristic = heuristic(layout)
    /\ iteration = 0
    /\ running = TRUE
    /\ load = FALSE
    /\ panicked = FALSE
    /\ keys = {}
    /\ pending = {}
    /\ left = -1
    /\ file = NoFile
    /\ log = <<>>
    /\ hist = NoHist
    /\ op = [name |-> "new", args |-> <<>>, ret |-> 0, before |-> <<>>]
    /\ codec = NoCodec

Swap(a, b) ==
    /\ ~panicked
    /\ layout' = swap(layout, a, b)
    /\ panicked' = swap_panics(layout, a, b)
    /\ op' = [name |-> "swap", args |-> <<a, b>>, ret |-> 0, before |-> layout]
    /\ UNCHANGED <<appVars, codec>>

Position(point) ==
    /\ ~panicked
    /\ op' = [name |-> "position", args |-> <<point>>,
              ret |-> position(layout, point), before |-> layout]
    /\ UNCHANGED <<layout, panicked, appVars, codec>>

Step(swaps) ==
    /\ ~panicked
    /\ iteration < MaxIter
    /\ LoopBody(swaps)
    /\ op' = [name |-> "step", args |-> swaps, ret |-> 0, before |-> layout]
    /\ UNCHANGED <<initial_heuristic, running, load, keys, pending, left, file, log, hist,
                   codec>>

NextLayout ==
    \/ \E a \in SwapPoints, b \in SwapPoints : Swap(a, b)
    \/ \E point \in ProbePoints : Position(point)
    \/ \E swaps \in Batches : Step(swaps)

SpecLayout == InitLayout /\ [][NextLayout]_vars

(***************************************************************************)
(* Properties of the Layout and of the loop body, under SpecLayout         *)
(***************************************************************************)
Bijection(l) ==
    /\ DOMAIN l = Grid
    /\ {l[k] : k \in DOMAIN l} = 0 .. (WIDTH * WIDTH * WIDTH - 1)

\* C1: after any seed policy, any sequence of swap calls and any sequence of
\* loop iterations, the keys are the WIDTH^3 grid coordinates and the stored
\* indices are exactly 0 .. WIDTH^3 - 1, none repeated and none missing.
C1_BijectionInvariant == Bijection(layout)

\* C1 witness: a layout that a completed swap call has changed after at least
\* one loop iteration ran.
C1_Witness ==
    /\ iteration >= 1
    /\ op.name = "swap"
    /\ ~panicked
    /\ layout # op.before

\* C2: no loop iteration raises the recorded best cost.
C2_BestNeverIncreases ==
    [][iteration' = iteration + 1 => best_heuristic' <= best_heuristic]_vars

\* C2 witness: an iteration has lowered the best cost below the initial cost.
C2_Witness ==
    /\ op.name = "step"
    /\ iteration >= 1
    /\ best_heuristic < initial_heuristic

\* the map a batch produces when applied front to back to l
after_batch(l, swaps) == apply_swaps([map |-> l, panic |-> FALSE], swaps).map

\* the cost heuristic() reports once the batch is applied to l
cost_after(l, swaps) == LET applied == after_batch(l, swaps) IN heuristic(applied)

\* C3: an iteration whose batch costs more than the best cost (a rejected
\* step) leaves the mapping exactly as it was before the step.
C3_RollbackRestores ==
    [][(/\ op'.name = "step"
        /\ iteration' = iteration + 1
        /\ cost_after(layout, op'.args) > best_heuristic)
       => layout' = layout]_vars

\* C3 witness: a rejected batch of two swaps that share a coordinate, after
\* which the mapping is the one before the step.
C3_Witness ==
    /\ op.name = "step"
    /\ Len(op.args) >= 2
    /\ op.args[1][2] = op.args[2][1]
    /\ after_batch(op.before, op.args) # op.before
    /\ cost_after(op.before, op.args) > best_heuristic
    /\ layout = op.before

\* C4: for in-bounds a and b, distinct or not, swap(a, b) completes, and a
\* second swap(a, b) right after it completes and gives back the mapping the
\* first call started from.
C4_SwapTwiceIsIdentity ==
    [][(/\ op'.name = "swap"
        /\ in_bounds(op'.args[1])
        /\ in_bounds(op'.args[2]))
       => /\ ~panicked'
          /\ (op.name = "swap" /\ op.args = op'.args) => layout' = op.before]_vars

\* C5: swap(a, b) with both in bounds leaves a with b's former index, b with
\* a's former index and every other coordinate as it was; with a coordinate
\* out of bounds it aborts and the mapping is unchanged.
C5_SwapExchangesAndFrames ==
    [][op'.name = "swap" =>
         LET a == op'.args[1]
             b == op'.args[2]
         IN  IF in_bounds(a) /\ in_bounds(b)
             THEN /\ DOMAIN layout' = DOMAIN layout
                  /\ layout'[as_u8vec3(a)] = layout[as_u8vec3(b)]
                  /\ layout'[as_u8vec3(b)] = layout[as_u8vec3(a)]
                  /\ \A k \in DOMAIN layout \ {as_u8vec3(a), as_u8vec3(b)} :
                        layout'[k] = layout[k]
             ELSE /\ panicked'
                  /\ layout' = layout]_vars

\* C5 witness: swap((0,0,0), (1,1,1)) on the linear layout has exchanged the
\* two entries.
C5_Witness ==
    /\ op.name = "swap"
    /\ op.args = <<<<0, 0, 0>>, <<1, 1, 1>>>>
    /\ op.before = new_linear
    /\ ~panicked
    /\ layout[<<0, 0, 0>>] = linearize(<<1, 1, 1>>)
    /\ layout[<<1, 1, 1>>] = 0

\* C10: position of a coordinate with an axis outside [0, WIDTH) is the
\* sentinel usize::MAX; position of an in-bounds coordinate is its index,
\* which is below WIDTH^3.
C10_OutOfRangeLookupIsSentinel ==
    op.name = "position" =>
        LET point == op.args[1]
        IN  IF in_bounds(point)
            THEN /\ op.ret = op.before[point]
                 /\ op.ret < WIDTH * WIDTH * WIDTH
                 /\ op.ret # USIZE_MAX
            ELSE op.ret = USIZE_MAX

(***************************************************************************)
(* SpecMorton: the codec applied to bounded inputs                         *)
(*                                                                         *)
(* codec.kind = "point": input is a UVec3; enc is Morton3D::encode(input), *)
(* to is to_morton_index(input), dec is Morton3D::decode of the encoded    *)
(* index. codec.kind = "index": input is a u32; dec is                     *)
(* Morton3D::decode(input), enc is Morton3D::encode of the decoded point.  *)
(***************************************************************************)
\* the largest axis value and the largest index given to the codec
MaxAxis == 17
MaxIndex == 4100

InitMorton ==
    /\ \/ \E point \in (0 .. MaxAxis) \X (0 .. MaxAxis) \X (0 .. MaxAxis) :
            codec = [kind |-> "point", input |-> point,
                     enc |-> Unset, to |-> Unset, dec |-> Unset]
       \/ \E index \in 0 .. MaxIndex :
            codec = [kind |-> "index", input |-> index,
                     enc |-> Unset, to |-> Unset, dec |-> Unset]
    /\ layout = <<>>
    /\ best_heuristic = 0
    /\ initial_heuristic = 0
    /\ iteration = 0
    /\ running = FALSE
    /\ load = FALSE
    /\ panicked = FALSE
    /\ keys = {}
    /\ pending = {}
    /\ left = -1
    /\ file = NoFile
    /\ log = <<>>
    /\ hist = NoHist
    /\ op = NoOp

EncodePoint ==
    /\ codec.kind = "point"
    /\ codec.enc = Unset
    /\ codec' = [codec EXCEPT !.enc = Morton3D_encode(codec.input)]
    /\ UNCHANGED <<layout, panicked, appVars, op>>

ToMortonIndex ==
    /\ codec.kind = "point"
    /\ codec.to = Unset
    /\ codec' = [codec EXCEPT !.to = Ok(to_morton_index(codec.input))]
    /\ UNCHANGED <<layout, panicked, appVars, op>>

DecodeEncoded ==
    /\ codec.kind = "point"
    /\ codec.enc.tag = "Ok"
    /\ codec.dec = Unset
    /\ codec' = [codec EXCEPT !.dec = [tag |-> "Point", val |-> Morton3D_decode(codec.enc.val)]]
    /\ UNCHANGED <<layout, panicked, appVars, op>>

DecodeIndex ==
    /\ codec.kind = "index"
    /\ codec.dec = Unset
    /\ codec' = [codec EXCEPT !.dec = [tag |-> "Point", val |-> Morton3D_decode(codec.input)]]
    /\ UNCHANGED <<layout, panicked, appVars, op>>

EncodeDecoded ==
    /\ codec.kind = "index"
    /\ codec.dec.tag = "Point"
    /\ codec.enc = Unset
    /\ codec' = [codec EXCEPT !.enc = Morton3D_encode(codec.dec.val)]
    /\ UNCHANGED <<layout, panicked, appVars, op>>

NextMorton ==
    \/ EncodePoint
    \/ ToMortonIndex
    \/ DecodeEncoded
    \/ DecodeIndex
    \/ EncodeDecoded

SpecMorton == InitMorton /\ [][NextMorton]_vars

InRange(point) == point[1] < 16 /\ point[2] < 16 /\ point[3] < 16

\* C6: decode(encode(c)) = c for every c with all axes below 16, and
\* encode(decode(i)) = i for every index i below 4096.
C6_MortonRoundTrip ==
    /\ (codec.kind = "point" /\ InRange(codec.input) /\ codec.enc # Unset) =>
          /\ codec.enc.tag = "Ok"
          /\ codec.dec # Unset => codec.dec.val = codec.input
    /\ (codec.kind = "index" /\ codec.input < 16 * 16 * 16 /\ codec.enc # Unset) =>
          codec.enc = Ok(codec.input)

\* C6 witness: (5, 10, 15) has been encoded and the index decoded back to it.
C6_Witness ==
    /\ codec.kind = "point"
    /\ codec.input = <<5, 10, 15>>
    /\ codec.enc.tag = "Ok"
    /\ codec.dec = [tag |-> "Point", val |-> <<5, 10, 15>>]

\* C7: Morton encoding of a coordinate with an axis of 16 or more is an
\* out-of-range error, whichever encoder is called, and encoding of a
\* coordinate with all axes below 16 succeeds; no out-of-range axis is
\* truncated to its low four bits to give an index.
C7_EncodeRejectsOutOfRange ==
    codec.kind = "point" =>
        /\ codec.enc # Unset => (codec.enc.tag = "Err" <=> ~InRange(codec.input))
        /\ codec.to # Unset => (codec.to.tag = "Err" <=> ~InRange(codec.input))

(***************************************************************************)
(* Spec: the application built by main()                                   *)
(*                                                                         *)
(* Each frame the Update schedule runs random_search, load_layout_from_file*)
(* and write_layout_to_file once each. main() states no order between them *)
(* and all three access the Layout and RandomSearch resources, so they run *)
(* one at a time in an order the scheduler picks. display_current_layout   *)
(* only reads the Layout and is left out.                                  *)
(***************************************************************************)
Systems == {"random_search", "load_layout_from_file", "write_layout_to_file"}

\* what the keyboard reports in one frame: nothing, R just pressed, or S or L
\* just pressed with a Control key held
KeyEvents == {{}, {"KeyR"}, {"Ctrl+KeyS"}, {"Ctrl+KeyL"}}

\* RandomSearch.per_frame and RandomSearch.save_every, scaled down from the
\* 10 and 1_000_000 that main() sets
PerFrame == 2
SaveEvery == 2

\* serde_yml::to_string(&layout): the document lists one entry per key
serialize(l) == [kind |-> "yaml", entries |-> {<<k, l[k]>> : k \in DOMAIN l}]

\* faulty variant: the loaded entries are merged into the live map
deserialize_merge(entries) ==
    [k \in DOMAIN layout \cup {e[1] : e \in entries} |->
        IF k \in {e[1] : e \in entries}
        THEN (CHOOSE e \in entries : e[1] = k)[2]
        ELSE layout[k]]

\* serde_yml::from_str: the map built from the entries of the document
deserialize(entries) ==
    [k \in {e[1] : e \in entries} |-> (CHOOSE e \in entries : e[1] = k)[2]]

\* a file that holds no YAML map
Garbage == [kind |-> "garbage", entries |-> {}]

\* snapshots found on disk at startup: none, an unparsable one, a permutation,
\* one with an index stored twice, one with a key missing
ValidSnapshot == swap(new_linear, <<0, 0, 0>>, <<WIDTH - 1, WIDTH - 1, WIDTH - 1>>)
DuplicateSnapshot == [new_morton EXCEPT ![<<0, 0, 0>>] = new_morton[<<1, 1, 1>>]]
ShortSnapshot == [k \in Grid \ {<<1, 1, 1>>} |-> new_morton[k]]

SnapshotFiles == {NoFile, Garbage, serialize(ValidSnapshot),
                  serialize(DuplicateSnapshot), serialize(ShortSnapshot)}

Init ==
    /\ layout = new_morton
    /\ best_heuristic = heuristic(layout)
    /\ initial_heuristic = heuristic(layout)
    /\ iteration = 0
    /\ running = TRUE
    /\ load = TRUE
    /\ panicked = FALSE
    /\ keys = {}
    /\ pending = {}
    /\ left = -1
    /\ file \in SnapshotFiles
    /\ log = <<>>
    /\ hist = NoHist
    /\ op = NoOp
    /\ codec = NoCodec

\* faulty variant: a system starts while random_search is inside its loop
no_system_running_unchecked == TRUE

\* random_search and load_layout_from_file take the Layout and RandomSearch
\* resources as ResMut and write_layout_to_file reads both, so the scheduler
\* starts none of them while another one is running; random_search is running
\* while its loop is open
no_system_running == left = -1

\* the frame starts: the input resource is updated and every system is due
BeginFrame(pressed) ==
    /\ ~panicked
    /\ pending = {}
    /\ left = -1
    /\ keys' = pressed
    /\ pending' = Systems
    /\ hist' = [hist EXCEPT !.mutated = {}]
    /\ UNCHANGED <<layout, best_heuristic, initial_heuristic, iteration, running,
                   load, panicked, left, file, log, op, codec>>

\* faulty variant: the early return is skipped
returns_early_never(run) == FALSE

\* `if !search.running { return; }`
returns_early(run) == ~run

\* random_search up to the loop: the toggle and the early return
RandomSearchEnter ==
    /\ ~panicked
    /\ "random_search" \in pending
    /\ no_system_running
    /\ running' = IF "KeyR" \in keys THEN ~running ELSE running
    /\ IF returns_early(running')
       THEN /\ pending' = pending \ {"random_search"}
            /\ left' = -1
       ELSE /\ iteration + PerFrame <= MaxIter
            /\ pending' = IF PerFrame = 0 THEN pending \ {"random_search"} ELSE pending
            /\ left' = IF PerFrame = 0 THEN -1 ELSE PerFrame
    /\ log' = IF "KeyR" \in keys THEN <<"running">> ELSE <<>>
    /\ UNCHANGED <<layout, best_heuristic, initial_heuristic, iteration, load,
                   panicked, keys, file, hist, op, codec>>

\* one iteration of the loop of random_search; the last one returns
SearchStep(swaps) ==
    /\ ~panicked
    /\ left >= 1
    /\ LoopBody(swaps)
    /\ left' = IF left = 1 THEN -1 ELSE left - 1
    /\ pending' = IF left = 1 THEN pending \ {"random_search"} ELSE pending
    /\ hist' = [mutated |-> hist.mutated \cup {"random_search"},
                saved |-> IF iteration' # iteration THEN "no" ELSE hist.saved]
    /\ UNCHANGED <<initial_heuristic, running, load, keys, file, log, op, codec>>

\* load_layout_from_file; read_ok is whether read_to_string succeeds on a file
\* that exists
LoadLayoutFromFile(read_ok) ==
    /\ ~panicked
    /\ "load_layout_from_file" \in pending
    /\ no_system_running
    /\ pending' = pending \ {"load_layout_from_file"}
    /\ IF ~load /\ "Ctrl+KeyL" \notin keys
       THEN /\ log' = <<>>
            /\ UNCHANGED <<layout, best_heuristic, initial_heuristic, iteration, load,
                           panicked, hist>>
       ELSE /\ load' = FALSE
            /\ IF file.kind = "missing" \/ ~read_ok
               THEN /\ log' = <<"LOADING LAYOUT", "No file saved">>
                    /\ UNCHANGED <<layout, best_heuristic, initial_heuristic, iteration,
                                   panicked, hist>>
               ELSE IF file.kind = "garbage"
               THEN /\ log' = <<"LOADING LAYOUT">>
                    /\ panicked' = TRUE
                    /\ UNCHANGED <<layout, best_heuristic, initial_heuristic, iteration,
                                   hist>>
               ELSE /\ log' = <<"LOADING LAYOUT", "Resetting search">>
                    /\ layout' = deserialize(file.entries)
                    /\ best_heuristic' = heuristic(layout')
                    /\ initial_heuristic' = heuristic(layout')
                    /\ iteration' = 0
                    /\ hist' = [mutated |-> hist.mutated \cup {"load_layout_from_file"},
                                saved |-> "no"]
                    /\ UNCHANGED panicked
    /\ UNCHANGED <<running, keys, left, file, op, codec>>

\* write_layout_to_file; fail names the call that fails, if any
WriteLayoutToFile(fail) ==
    /\ ~panicked
    /\ "write_layout_to_file" \in pending
    /\ no_system_running
    /\ pending' = pending \ {"write_layout_to_file"}
    /\ IF /\ ~(iteration # 0 /\ iteration % SaveEvery = 0)
          /\ "Ctrl+KeyS" \notin keys
       THEN /\ fail = "none"
            /\ log' = <<>>
            /\ UNCHANGED <<file, panicked, hist>>
       ELSE /\ log' = <<"SAVING LAYOUT">>
            /\ panicked' = (fail # "none")
            /\ file' = CASE fail = "none" -> serialize(layout)
                         [] fail = "create_current" -> file
                         [] fail = "create_backup" -> Garbage
            /\ hist' = IF fail # "none" THEN hist
                       ELSE [hist EXCEPT !.saved = IF "Ctrl+KeyS" \in keys
                                                   THEN "explicit" ELSE "periodic"]
    /\ UNCHANGED <<layout, best_heuristic, initial_heuristic, iteration, running,
                   load, keys, left, op, codec>>

Next ==
    \/ \E pressed \in KeyEvents : BeginFrame(pressed)
    \/ RandomSearchEnter
    \/ \E swaps \in Batches : SearchStep(swaps)
    \/ \E read_ok \in BOOLEAN : LoadLayoutFromFile(read_ok)
    \/ \E fail \in {"none", "create_current", "create_backup"} : WriteLayoutToFile(fail)

Spec == Init /\ [][Next]_vars

(***************************************************************************)
(* Properties of the snapshot load, under Spec                             *)
(***************************************************************************)
\* load_layout_from_file ran in this step with its trigger set
LoadTriggered ==
    /\ "load_layout_from_file" \in pending
    /\ "load_layout_from_file" \notin pending'
    /\ (load \/ "Ctrl+KeyL" \in keys)

\* the entries of a document give every grid coordinate one index and use
\* every index below WIDTH^3 once
ValidEntries(entries) ==
    /\ Cardinality(entries) = WIDTH * WIDTH * WIDTH
    /\ {e[1] : e \in entries} = Grid
    /\ {e[2] : e \in entries} = 0 .. (WIDTH * WIDTH * WIDTH - 1)

\* C8: a load that finds a snapshot with a wrong key count or with index
\* values that are no permutation of 0 .. WIDTH^3 - 1 is rejected: the Layout,
\* the best cost, the initial cost and the iteration counter stay as they
\* were and the search is not reset.
C8_CorruptSnapshotRejected ==
    [][(/\ LoadTriggered
        /\ file.kind = "yaml"
        /\ ~ValidEntries(file.entries))
       => /\ UNCHANGED <<layout, best_heuristic, initial_heuristic, iteration>>
          /\ log' # <<"LOADING LAYOUT", "Resetting search">>]_vars

\* C9: a load that succeeds leaves the Layout holding exactly the entries of
\* the snapshot, best_heuristic and initial_heuristic equal to the cost of
\* that Layout, and the iteration counter at 0.
C9_LoadIsHardRestart ==
    [][(/\ LoadTriggered
        /\ log' = <<"LOADING LAYOUT", "Resetting search">>)
       => /\ DOMAIN layout' = {e[1] : e \in file.entries}
          /\ \A e \in file.entries : layout'[e[1]] = e[2]
          /\ best_heuristic' = cost_after(layout', <<>>)
          /\ initial_heuristic' = best_heuristic'
          /\ iteration' = 0]_vars

\* C9 witness: the permutation snapshot has been loaded over the Layout and
\* the search restarted from its cost.
C9_Witness ==
    /\ log = <<"LOADING LAYOUT", "Resetting search">>
    /\ file.kind = "yaml"
    /\ file.entries = {<<k, layout[k]>> : k \in DOMAIN layout}
    /\ layout = ValidSnapshot
    /\ best_heuristic = heuristic(ValidSnapshot)
    /\ initial_heuristic = best_heuristic
    /\ iteration = 0

(***************************************************************************)
(* Properties of random_search as a system of the application, under Spec  *)
(***************************************************************************)
\* random_search starts in this step: it is due, no loop is open, and it
\* either returns at once or opens its loop
SearchInvoked ==
    /\ "random_search" \in pending
    /\ left = -1
    /\ (left' >= 1 \/ "random_search" \notin pending')

\* C11: an invocation of random_search that finds running false once the
\* toggle key has been applied returns without changing the Layout,
\* best_heuristic, initial_heuristic or iteration; the flag is read only at
\* the start, so the loop runs only in invocations that found it true and
\* nothing changes it while the loop runs.
C11_PausedInvocationHasNoEffect ==
    [][/\ (SearchInvoked /\ ~running')
          => /\ left' = -1
             /\ "random_search" \notin pending'
             /\ UNCHANGED <<layout, best_heuristic, initial_heuristic, iteration>>
       /\ left' >= 1 => running'
       /\ left >= 1 => (running /\ running' = running)]_vars

\* C11 witness: R was pressed in this frame, random_search has run, switched
\* the search off and returned with the counter and the Layout of startup.
C11_Witness ==
    /\ "KeyR" \in keys
    /\ log = <<"running">>
    /\ ~running
    /\ "random_search" \notin pending
    /\ left = -1
    /\ iteration = 0
    /\ layout = new_morton
    /\ best_heuristic = initial_heuristic

(***************************************************************************)
(* Properties of the snapshot save, under Spec                             *)
(***************************************************************************)
\* write_layout_to_file wrote the snapshot in this step without Ctrl+S
PeriodicSave ==
    /\ "write_layout_to_file" \in pending
    /\ "write_layout_to_file" \notin pending'
    /\ log' = <<"SAVING LAYOUT">>
    /\ ~panicked'
    /\ "Ctrl+KeyS" \notin keys

\* C12: without an explicit save request a snapshot is written exactly once
\* each time the iteration counter reaches a non-zero multiple of save_every,
\* running or paused: a periodic save is written only at such a multiple and
\* only if none was written since the counter last changed, and the counter
\* does not move past such a multiple before a snapshot of it was written.
C12_PeriodicSaveOncePerMultiple ==
    [][/\ PeriodicSave
          => /\ iteration # 0
             /\ iteration % SaveEvery = 0
             /\ hist.saved # "periodic"
       /\ (iteration' > iteration /\ iteration # 0 /\ iteration % SaveEvery = 0)
          => hist.saved # "no"]_vars

(***************************************************************************)
(* Properties of the scheduling of the systems, under Spec                 *)
(***************************************************************************)
\* load_layout_from_file ran in this step
LoadRan ==
    /\ "load_layout_from_file" \in pending
    /\ "load_layout_from_file" \notin pending'

\* C13 as stated: in every tick at most one of random_search (running steps)
\* and load_layout_from_file (replacing the Layout) mutates the Layout, and no
\* load takes place while random_search is inside its loop.
C13_AtMostOneMutatorPerTick ==
    [][/\ Cardinality(hist'.mutated) <= 1
       /\ left >= 1 => ~LoadRan]_vars

\* C13 amended: random_search and load_layout_from_file both run in every
\* tick and both may mutate the Layout in the same tick, but only one after
\* the other: no load (and no save) takes place between the first step of an
\* invocation of random_search and its return, so never between the
\* application of a swap batch and its accept/reject decision.
C13_LoadNeverInsideInvocation ==
    [][/\ LoadRan => (left = -1 /\ left' = -1)
       /\ left >= 1 => /\ UNCHANGED <<load, file, initial_heuristic, keys>>
                       /\ "random_search" \in hist'.mutated
                       /\ ("load_layout_from_file" \in pending'
                             <=> "load_layout_from_file" \in pending)]_vars

\* C13 witness: in one tick random_search has run its steps and then the
\* load has replaced the Layout and reset the search.
C13_Witness ==
    /\ hist.mutated = {"random_search", "load_layout_from_file"}
    /\ log = <<"LOADING LAYOUT", "Resetting search">>
    /\ "random_search" \notin pending
    /\ left = -1
    /\ iteration = 0
    /\ layout = ValidSnapshot
    /\ ~panicked

\* write_layout_to_file ran in this step
WriteRan ==
    /\ "write_layout_to_file" \in pending
    /\ "write_layout_to_file" \notin pending'

\* C14: a snapshot I/O failure (the read of a load, the create or write of a
\* save) ends in a reported error and not in the abort of the program, leaves
\* the Layout, best_heuristic, initial_heuristic and iteration as they were,
\* and the systems keep being invoked: neither a load that cannot read its
\* file nor any run of the save system kills the process or changes them.
C14_SnapshotIoFailureRecoverable ==
    [][/\ (LoadTriggered /\ log' = <<"LOADING LAYOUT", "No file saved">>)
          => /\ ~panicked'
             /\ UNCHANGED <<layout, best_heuristic, initial_heuristic, iteration>>
       /\ WriteRan
          => /\ ~panicked'
             /\ UNCHANGED <<layout, best_heuristic, initial_heuristic, iteration>>]_vars

(***************************************************************************)
(* Properties of the accept/reject decision, under SpecLayout              *)
(***************************************************************************)
\* C15: acceptance is non-strict. A completed loop iteration whose batch
\* gives a cost at most best_heuristic keeps the mutated Layout and sets
\* best_heuristic to that cost; only a cost strictly above best_heuristic
\* restores the Layout, and then best_heuristic stays as it was.
C15_NonStrictAcceptance ==
    [][(op'.name = "step" /\ iteration' = iteration + 1)
       => LET new_heuristic == cost_after(layout, op'.args)
          IN  IF new_heuristic <= best_heuristic
              THEN /\ layout' = after_batch(layout, op'.args)
                   /\ best_heuristic' = new_heuristic
              ELSE /\ layout' = layout
                   /\ best_heuristic' = best_heuristic]_vars

\* C15 witness: the first iteration drew a batch that changed the Layout and
\* left the cost where it was, and the changed Layout was kept.
C15_Witness ==
    /\ op.name = "step"
    /\ iteration = 1
    /\ ~panicked
    /\ layout # op.before
    /\ layout = after_batch(op.before, op.args)
    /\ best_heuristic = initial_heuristic
    /\ cost_after(op.before, <<>>) = best_heuristic

(***************************************************************************)
(* Properties of the loop of random_search inside the application, Spec    *)
(***************************************************************************)
\* C16: every batch random_search draws has 1 <= k < MAX_SWAPS swaps, each
\* with both coordinates inside the cube and different from one another, and
\* so no swap call of a loop iteration, forward or rollback, aborts.
C16_SearchSwapsNeverAbort ==
    [][/\ \A swaps \in Batches :
              /\ 1 <= Len(swaps)
              /\ Len(swaps) < MAX_SWAPS
              /\ \A i \in 1 .. Len(swaps) :
                     /\ in_bounds(swaps[i][1])
                     /\ in_bounds(swaps[i][2])
                     /\ swaps[i][1] # swaps[i][2]
       /\ left >= 1 => ~panicked']_vars

\* C17: an invocation of random_search that finds running true runs exactly
\* per_frame loop iterations and returns, and every loop iteration adds
\* exactly one to the iteration counter, so the counter grows by per_frame
\* per running invocation.
C17_ExactlyPerFrameSteps ==
    [][/\ (SearchInvoked /\ running')
          => left' = IF PerFrame = 0 THEN -1 ELSE PerFrame
       /\ left >= 1
          => /\ iteration' = iteration + 1
             /\ left' = IF left = 1 THEN -1 ELSE left - 1
             /\ "random_search" \in pending' <=> left > 1]_vars

(***************************************************************************)
(* Properties of the bit layout of the Morton index, under SpecMorton      *)
(***************************************************************************)
\* bit j of v
Bit(v, j) == (v \div Pow2(j)) % 2

\* r is below 4096 and holds bit j of x, y, z at bits 3j, 3j+1, 3j+2
Interleaved(point, r) ==
    /\ r >= 0
    /\ r < 4096
    /\ \A j \in 0 .. 3 :
          /\ Bit(r, 3 * j) = Bit(point[1], j)
          /\ Bit(r, 3 * j + 1) = Bit(point[2], j)
          /\ Bit(r, 3 * j + 2) = Bit(point[3], j)

\* C18: for a coordinate with every axis in [0, 16) the Morton index is
\* below 4096 and interleaves the axes: bit 3j is bit j of x, bit 3j+1 is bit
\* j of y, bit 3j+2 is bit j of z (so (1,0,0) gives 1, (0,1,0) gives 2,
\* (0,0,1) gives 4 and (1,1,1) gives 7), and to_morton_index and
\* Morton3D::encode return the same value.
C18_MortonInterleavesBits ==
    (codec.kind = "point" /\ InRange(codec.input))
    => /\ codec.enc # Unset
          => (codec.enc.tag = "Ok" /\ Interleaved(codec.input, codec.enc.val))
       /\ codec.to # Unset
          => (codec.to.tag = "Ok" /\ Interleaved(codec.input, codec.to.val))
       /\ (codec.enc # Unset /\ codec.to # Unset) => codec.enc.val = codec.to.val
       /\ (codec.input = <<1, 0, 0>> /\ codec.to # Unset) => codec.to.val = 1
       /\ (codec.input = <<0, 1, 0>> /\ codec.to # Unset) => codec.to.val = 2
       /\ (codec.input = <<0, 0, 1>> /\ codec.to # Unset) => codec.to.val = 4
       /\ (codec.input = <<1, 1, 1>> /\ codec.to # Unset) => codec.to.val = 7

\* C18 witness: both encoders have been applied to (15, 0, 9) and both gave
\* 2^0 + 2^3 + 2^6 + 2^9 for x plus 2^2 + 2^11 for z.
C18_Witness ==
    /\ codec.kind = "point"
    /\ codec.input = <<15, 0, 9>>
    /\ codec.enc = Ok(2637)
    /\ codec.to = Ok(2637)

(***************************************************************************)
(* Properties of the cost metric, under SpecLayout                         *)
(***************************************************************************)
\* the largest difference over the three axes
Chebyshev(p, n) ==
    LET d(i) == Abs(p[i] - n[i])
    IN  IF d(1) >= d(2) /\ d(1) >= d(3) THEN d(1)
        ELSE IF d(2) >= d(3) THEN d(2) ELSE d(3)

\* the ordered pairs of grid coordinates at Chebyshev distance at most 1
\* whose indices lie Threshold or more apart
MissPairs(l) ==
    {pn \in Grid \X Grid :
        /\ Chebyshev(pn[1], pn[2]) <= 1
        /\ Abs(l[pn[2]] - l[pn[1]]) >= Threshold}

\* C19: for a bijective Layout the cost is the number of ordered pairs (p, n)
\* of grid coordinates within Chebyshev distance 1 whose indices differ by 32
\* or more; no lookup of the sum returns the not-found sentinel; and a pair
\* of distinct neighbours is counted once from each side.
C19_CostCountsThresholdMisses ==
    Bijection(layout)
    => LET pairs == MissPairs(layout)
       IN  /\ heuristic(layout) = Cardinality(pairs)
           /\ \A p \in DOMAIN layout : \A n \in neighbors(as_ivec3(p)) :
                  position(layout, n) # USIZE_MAX
           /\ \A pn \in pairs : pn[1] # pn[2] /\ <<pn[2], pn[1]>> \in pairs
           /\ Cardinality(pairs) = 2 * Cardinality({{pn[1], pn[2]} : pn \in pairs})

\* C19 witness: a loop iteration has changed a bijective Layout and the cost
\* it stored for the new Layout is a positive number of threshold misses.
C19_Witness ==
    /\ op.name = "step"
    /\ ~panicked
    /\ Bijection(layout)
    /\ layout # op.before
    /\ best_heuristic > 0
    /\ best_heuristic = Cardinality(MissPairs(layout))

(***************************************************************************)
(* Properties of the stored best cost, under Spec                          *)
(***************************************************************************)
\* C20: after startup, after every completed loop iteration and after every
\* load that installed a snapshot, best_heuristic is the cost of the Layout
\* as it stands.
C20_BestCostTracksLayout ==
    ~panicked => best_heuristic = heuristic(layout)

\* C20 witness: the permutation snapshot was loaded and a loop iteration
\* then accepted the batch that turns it into the linear Layout; the stored
\* best cost is the cost of that Layout.
C20_Witness ==
    /\ iteration >= 1
    /\ left = -1
    /\ ~panicked
    /\ initial_heuristic = heuristic(ValidSnapshot)
    /\ layout = new_linear
    /\ best_heuristic = heuristic(layout)

====
